---- MODULE Spec2Model ----
(***************************************************************************)
(* Model of the Wait_Times dashboard (src/app.py): the ingestion cycle of  *)
(* GET / (fetch every park, transform, store, rank, advise, render), the   *)
(* WaitHistory table, and the two read routes over it.                     *)
(*                                                                         *)
(* Time is counted in minutes.  A request is served by one thread with its *)
(* own playlist and its own database session (db.session is scoped to the  *)
(* request); the table is the only state the requests share.               *)
(***************************************************************************)
EXTENDS Integers, Sequences, FiniteSets, TLC

\* ------------------------------------------------------------------ bounds
\* What the queue source may deliver in one run of Spec, over all parks and
\* requests: each raw ride record and each failed fetch counts as one.
MaxEvents == 2
\* The same for SpecRaw.
RawEvents == 1
\* Requests to GET / in one run of SpecHistory.
HistCycles == 3
\* Longest batches handed to ranking and advice in SpecPure.
MaxBatch == 6
MaxAdvice == 3

\* ------------------------------------------------------- program constants
PARKS ==
  << "Magic Kingdom", "EPCOT", "Hollywood Studios", "Animal Kingdom",
     "Universal Studios Florida", "Islands of Adventure", "Epic Universe" >>

BLACKLIST ==
  { "Hollywood Rip Ride Rockit", "Dinosaur", "Poseidon's Fury",
    "Shrek 4-D", "Fear Factor Live", "Star Wars Launch Bay",
    "Primeval Whirl", "Great Movie Ride", "Splash Mountain" }

big_disney == << "Mine Train", "Slinky Dog", "Rise of the Resistance" >>

EpicPark == "Epic Universe"
EpicMaxWait == 45
ValueMaxWait == 50
TipCap == 2
TopN == 5
MinDisplayWait == 5
HistoryHours == 24
LogHours == 12
LogLimit == 200

\* Python's None: what r_data.get('name') gives when the key is absent.
NoneName == "None"

\* The two threads of the server that may each be serving GET /.
Reqs == {1, 2}

VARIABLES
  store,      \* the WaitHistory table: committed rows, in insertion order
  now,        \* datetime.utcnow(), in minutes
  ticks,      \* clock advances so far (at most one for each request)
  cycles,     \* GET / requests started so far
  seen,       \* raw ride records and failed fetches delivered so far
  pc,         \* per request: "idle", "parks", "after", "done"
  park_i,     \* per request: index in PARKS of the park the loop is at
  playlist,   \* per request: the local list index() builds
  session,    \* per request: rows added to db.session and not yet committed
  cyc,        \* per request: number of the cycle it serves (0: none yet)
  visited,    \* per request: the parks the loop has been through, in order
  failed,     \* per request: parks whose try block raised in this cycle
  response,   \* per request: what the source answered for the last park
  top_5,      \* per request: the ranking handed to the template
  top_ix,     \* per request: positions in playlist of the ranked samples
  ai_tips,    \* per request: the advice handed to the template
  batch,      \* per request: the shuffled playlist handed to the template
  result,     \* per request: "none", "rendered" or "raised"
  history,    \* the answer, when the last step was GET /api/history/<ride_name>
  history_ids,\* ids of the rows that answer was built from, in order
  logs,       \* the rows shown, when the last step was GET /history
  route,      \* the route the last step served ("" when it served none)
  asked       \* the <ride_name> of the last step, on GET /api/history/

vars == << store, now, ticks, cycles, seen, pc, park_i, playlist, session, cyc,
           visited, failed, response, top_5, top_ix, ai_tips, batch, result,
           history, history_ids, logs, route, asked >>

reqVars  == << pc, park_i, playlist, session, cyc, visited, failed, response,
               top_5, top_ix, ai_tips, batch, result >>

\* ------------------------------------------------------------ raw records
\* A raw ride record of the source's JSON.  dict = FALSE is an array element
\* that is no JSON object (r_data.get raises AttributeError).  name is
\* NoneName when the key is absent; is_open is "absent", "true" or "false";
\* wait_kind is "absent", "int" or "null" (a JSON null, which the comparison
\* raw_wait > 0 raises TypeError on).
Ride(name, is_open, wait_kind, wait_val) ==
  [dict |-> TRUE, name |-> name, is_open |-> is_open,
   wait_kind |-> wait_kind, wait_val |-> wait_val]

Garbage ==
  [dict |-> FALSE, name |-> NoneName, is_open |-> "absent",
   wait_kind |-> "absent", wait_val |-> 0]

\* What requests.get(...).json() gives: an exception (unreachable, timeout,
\* non-JSON body), or a document with a 'lands' array of groups, each with a
\* 'rides' array, and a top-level 'rides' array.  An absent key and an empty
\* array are the same to the code (lines 110-112), so both are <<>> here.
FetchError == [t |-> "error", lands |-> <<>>, rides |-> <<>>]
Json(lands, rides) == [t |-> "json", lands |-> lands, rides |-> rides]

\* ------------------------------------------------------- helper operators
Min(a, b) == IF a <= b THEN a ELSE b

Range(s) == { s[i] : i \in 1..Len(s) }

SeqsUpTo(S, n) == UNION { [1..k -> S] : k \in 0..n }

\* How often x occurs in s.
Count(s, x) == Cardinality({ i \in 1..Len(s) : s[i] = x })

\* t holds the elements of s, each as often, in some order.
IsOrderingOf(t, s) ==
  Len(t) = Len(s) /\ \A x \in Range(s) : Count(t, x) = Count(s, x)

\* Every ordering of the elements of s (random.shuffle may produce any).
Orderings(s) ==
  { [i \in 1..Len(s) |-> s[f[i]]] :
      f \in { g \in [1..Len(s) -> 1..Len(s)] :
                \A i, j \in 1..Len(s) : i /= j => g[i] /= g[j] } }

RECURSIVE Flatten(_)
Flatten(ss) == IF ss = <<>> THEN <<>> ELSE Head(ss) \o Flatten(Tail(ss))

\* The raw ride records of a response, lands first, as the code walks them.
RawRides(resp) == Flatten(resp.lands) \o resp.rides

\* What a response takes from the run's budget of deliveries.
Cost(resp) == IF resp.t = "error" THEN 1 ELSE Len(RawRides(resp))

\* The document that carries the records s: the first i in one land, the next
\* up to the j-th in a second land, the rest in the top-level rides array (a
\* land is there only when it has records).
Layout(s, i, j) ==
  Json(SelectSeq(<< SubSeq(s, 1, i), SubSeq(s, i + 1, j) >>,
                 LAMBDA land : land /= <<>>),
       SubSeq(s, j + 1, Len(s)))

\* The responses that cost at most n, with records drawn from R.
Responses(R, n) ==
  (IF n >= 1 THEN { FetchError } ELSE {}) \cup
  UNION { UNION { { Layout(s, i, j) : j \in i..Len(s) } : i \in 0..Len(s) } :
            s \in SeqsUpTo(R, n) }

\* ------------------------------------------------------ Sample Transformer
\* r_data.get('is_open', False) and r_data.get('wait_time', 0)
GetIsOpen(r_data) == r_data.is_open = "true"
GetWait(r_data) == IF r_data.wait_kind = "absent" THEN 0 ELSE r_data.wait_val

\* Blacklisted with one entry lost from the list: C4 must fail on it.
BlacklistedStale(name) == name \in BLACKLIST \ { "Dinosaur" }

\* name in BLACKLIST
Blacklisted(name) == name \in BLACKLIST

\* status = "OPEN" if is_open else "DELAYED"
Status(is_open) == IF is_open THEN "OPEN" ELSE "DELAYED"

\* DisplayWait that lets a reported zero through: C5 must fail on it.
DisplayWaitZero(is_open, raw_wait) ==
  IF is_open THEN (IF raw_wait >= 0 THEN raw_wait ELSE MinDisplayWait) ELSE 0

\* display_wait = (raw_wait if raw_wait > 0 else 5) if is_open else 0
DisplayWait(is_open, raw_wait) ==
  IF is_open THEN (IF raw_wait > 0 THEN raw_wait ELSE MinDisplayWait) ELSE 0

\* The conditional expression evaluates raw_wait > 0 only when is_open holds;
\* on a JSON null it raises TypeError.
WaitRaises(r_data) == GetIsOpen(r_data) /\ r_data.wait_kind = "null"

ride_unit(r_data, park_name) ==
  [name   |-> r_data.name,
   park   |-> park_name,
   wait   |-> DisplayWait(GetIsOpen(r_data), GetWait(r_data)),
   status |-> Status(GetIsOpen(r_data))]

\* A pending row, WaitHistory(ride_name=, park_name=, wait_time=, status=);
\* id and timestamp are set when the row is inserted.
WaitHistory(u) ==
  [ride_name |-> u.name, park_name |-> u.park,
   wait_time |-> u.wait, status |-> u.status]

\* process_rides, on st = [playlist, session, raised]: the loop stops at the
\* first record that raises, and what it appended before stays appended.
RECURSIVE process_rides(_, _, _)
process_rides(raw_rides, park_name, st) ==
  IF st.raised \/ raw_rides = <<>> THEN st
  ELSE LET r_data == Head(raw_rides) IN
    IF ~r_data.dict THEN [st EXCEPT !.raised = TRUE]
    ELSE IF Blacklisted(r_data.name)
      THEN process_rides(Tail(raw_rides), park_name, st)
    ELSE IF WaitRaises(r_data) THEN [st EXCEPT !.raised = TRUE]
    ELSE process_rides(Tail(raw_rides), park_name,
           [playlist |-> Append(st.playlist, ride_unit(r_data, park_name)),
            session  |-> Append(st.session,
                                WaitHistory(ride_unit(r_data, park_name))),
            raised   |-> FALSE])

\* for land in data['lands']: process_rides(land.get('rides', []))
RECURSIVE process_lands(_, _, _)
process_lands(lands, park_name, st) ==
  IF st.raised \/ lands = <<>> THEN st
  ELSE process_lands(Tail(lands), park_name,
                     process_rides(Head(lands), park_name, st))

\* The body of the try block up to the commit.
TryPark(resp, park_name, st) ==
  IF resp.t = "error" THEN [st EXCEPT !.raised = TRUE]
  ELSE process_rides(resp.rides, park_name,
                     process_lands(resp.lands, park_name, st))

\* Commit that writes the pending rows over the first rows of the table
\* instead of behind the last: C10 must fail on it.
CommitOver(tbl, pending, t, c_no) ==
  [i \in 1..(IF Len(tbl) > Len(pending) THEN Len(tbl) ELSE Len(pending)) |->
     IF i <= Len(pending)
       THEN [id        |-> i,
             ride_name |-> pending[i].ride_name,
             park_name |-> pending[i].park_name,
             wait_time |-> pending[i].wait_time,
             status    |-> pending[i].status,
             timestamp |-> t,
             cyc       |-> c_no]
       ELSE tbl[i]]

\* db.session.commit(): every pending row of the session is inserted, with
\* the next ids and timestamp = utcnow().  c_no tags the row with the cycle
\* that committed it (not a column: bookkeeping for the properties).
Commit(tbl, pending, t, c_no) ==
  tbl \o [i \in 1..Len(pending) |->
            [id        |-> Len(tbl) + i,
             ride_name |-> pending[i].ride_name,
             park_name |-> pending[i].park_name,
             wait_time |-> pending[i].wait_time,
             status    |-> pending[i].status,
             timestamp |-> t,
             cyc       |-> c_no]]

\* ---------------------------------------------------------------- Ranking
IsOpen(r) == r.status = "OPEN"

\* The positions of the samples the filter keeps.
OpenIx(p) == SelectSeq([i \in 1..Len(p) |-> i], LAMBDA i : IsOpen(p[i]))

\* Before that puts a later sample ahead of an equal earlier one (what
\* reversing an ascending sort would do): C6 must fail on it.
BeforeOrTied(a, b) == a >= b

\* The sort key and order: key=lambda x: x['wait'], reverse=True.  Before(a, b)
\* holds when a sample with key a must come before one with key b.
Before(a, b) == a > b

\* sorted() is stable, also with reverse=True: i goes behind every position
\* already placed that does not have to come after it.
RECURSIVE InsertSorted(_, _, _)
InsertSorted(s, i, p) ==
  IF s = <<>> THEN << i >>
  ELSE IF Before(p[i].wait, p[Head(s)].wait) THEN << i >> \o s
  ELSE << Head(s) >> \o InsertSorted(Tail(s), i, p)

RECURSIVE SortedIx(_, _)
SortedIx(ixs, p) ==
  IF ixs = <<>> THEN <<>>
  ELSE InsertSorted(SortedIx(SubSeq(ixs, 1, Len(ixs) - 1), p), ixs[Len(ixs)], p)

\* sorted([r for r in playlist if r['status'] == "OPEN"], ...)[:5], as positions
Top5Ix(p) == SubSeq(SortedIx(OpenIx(p), p), 1, Min(TopN, Len(OpenIx(p))))

\* ------------------------------------------------------- Advice Generator
QuietTip   == [kind |-> "QUIET",   name |-> "", wait |-> 0]
WelcomeTip == [kind |-> "WELCOME", name |-> "", wait |-> 0]
EpicTip(r)    == [kind |-> "EPIC TIP",    name |-> r.name, wait |-> r.wait]
ValueAlert(r) == [kind |-> "VALUE ALERT", name |-> r.name, wait |-> r.wait]

open_rides(p) == SelectSeq(p, IsOpen)

\* [r for r in open_rides if r['park'] == "Epic Universe" and r['wait'] <= 45]
IsEpicGem(r) == r.park = EpicPark /\ r.wait <= EpicMaxWait
epic_gems(p) == SelectSeq(open_rides(p), IsEpicGem)

\* IsValue with the threshold itself left out: C7 must fail on it.
IsValueBelow(r) == r.name \in Range(big_disney) /\ r.wait < ValueMaxWait

\* r['name'] in big_disney and r['wait'] <= 50
IsValue(r) == r.name \in Range(big_disney) /\ r.wait <= ValueMaxWait

\* The tips list before the final slice; pick is random.choice's draw.
Tips(p, pick) ==
  LET epic   == IF epic_gems(p) /= <<>> THEN << EpicTip(epic_gems(p)[pick]) >>
                ELSE <<>>
      values == SelectSeq(open_rides(p), IsValue)
      alerts == [i \in 1..Len(values) |-> ValueAlert(values[i])]
  IN  IF epic \o alerts = <<>> THEN << WelcomeTip >> ELSE epic \o alerts

\* tips[:2]
Cut(tips) == SubSeq(tips, 1, Min(TipCap, Len(tips)))

generate_ai_advice(p, pick) ==
  IF open_rides(p) = <<>> THEN << QuietTip >> ELSE Cut(Tips(p, pick))

\* Every result random.choice allows.
AdviceSet(p) ==
  { generate_ai_advice(p, pick) :
      pick \in IF epic_gems(p) = <<>> THEN {1} ELSE 1..Len(epic_gems(p)) }

\* ------------------------------------------------------------- rendering
\* MAIN_TEMPLATE calls ride.name.lower() on every ride of the playlist; on a
\* name that is None the attribute is undefined and the call raises.
Renders(p) == \A i \in 1..Len(p) : p[i].name /= NoneName

\* ---------------------------------------------------------- read queries
\* timestamp.strftime("%H:%M")
HHMM(t) == [hour |-> (t \div 60) % 24, minute |-> t % 60]

\* Newer that keeps a row exactly on the cutoff: C8 must fail on it.
NewerOrOn(row, cutoff) == row.timestamp >= cutoff

\* The ids of the rows a query keeps: WaitHistory.timestamp > cutoff, and for
\* the per-ride query WaitHistory.ride_name == ride_name as well.
Newer(row, cutoff) == row.timestamp > cutoff
RideRows(tbl, ride_name, cutoff) ==
  { i \in 1..Len(tbl) : tbl[i].ride_name = ride_name /\ Newer(tbl[i], cutoff) }
LogRows(tbl, cutoff) == { i \in 1..Len(tbl) : Newer(tbl[i], cutoff) }

\* Every listing of the ids, each once.  ORDER BY leaves the order of rows
\* with equal timestamps to the database, so a query may answer with any
\* listing that respects its order.
Listings(ids) ==
  { s \in [1..Cardinality(ids) -> ids] :
      \A i, j \in 1..Cardinality(ids) : i /= j => s[i] /= s[j] }

\* order_by(WaitHistory.timestamp.asc())
Ascending(tbl, ids) ==
  { s \in Listings(ids) :
      \A i, j \in 1..Len(s) : i < j => tbl[s[i]].timestamp <= tbl[s[j]].timestamp }
\* order_by(WaitHistory.timestamp.desc())
Descending(tbl, ids) ==
  { s \in Listings(ids) :
      \A i, j \in 1..Len(s) : i < j => tbl[s[i]].timestamp >= tbl[s[j]].timestamp }

\* data = [{"time": h.timestamp.strftime("%H:%M"), "wait": h.wait_time} ...]
HistoryJson(tbl, ids) ==
  [k \in 1..Len(ids) |->
     [time |-> HHMM(tbl[ids[k]].timestamp), wait |-> tbl[ids[k]].wait_time]]

\* ------------------------------------------------------------------ state
Init ==
  /\ store = <<>>
  /\ now = 0
  /\ ticks = 0
  /\ cycles = 0
  /\ seen = 0
  /\ pc = [c \in Reqs |-> "idle"]
  /\ park_i = [c \in Reqs |-> 1]
  /\ playlist = [c \in Reqs |-> <<>>]
  /\ session = [c \in Reqs |-> <<>>]
  /\ cyc = [c \in Reqs |-> 0]
  /\ visited = [c \in Reqs |-> <<>>]
  /\ failed = [c \in Reqs |-> {}]
  /\ response = [c \in Reqs |-> FetchError]
  /\ top_5 = [c \in Reqs |-> <<>>]
  /\ top_ix = [c \in Reqs |-> <<>>]
  /\ ai_tips = [c \in Reqs |-> <<>>]
  /\ batch = [c \in Reqs |-> <<>>]
  /\ result = [c \in Reqs |-> "none"]
  /\ history = <<>>
  /\ history_ids = <<>>
  /\ logs = <<>>
  /\ route = ""
  /\ asked = ""

\* A step that is no read query leaves no answer of one behind.
NoAnswer(served) ==
  /\ route' = served
  /\ asked' = ""
  /\ history' = <<>> /\ history_ids' = <<>> /\ logs' = <<>>

\* ------------------------------------------------------------ GET / (index)
\* The entry of index(): playlist = [], and the request's session is fresh.
Start(c) ==
  /\ cycles' = cycles + 1
  /\ cyc' = [cyc EXCEPT ![c] = cycles + 1]
  /\ pc' = [pc EXCEPT ![c] = "parks"]
  /\ park_i' = [park_i EXCEPT ![c] = 1]
  /\ playlist' = [playlist EXCEPT ![c] = <<>>]
  /\ session' = [session EXCEPT ![c] = <<>>]
  /\ visited' = [visited EXCEPT ![c] = <<>>]
  /\ failed' = [failed EXCEPT ![c] = {}]
  /\ response' = [response EXCEPT ![c] = FetchError]
  /\ top_5' = [top_5 EXCEPT ![c] = <<>>]
  /\ top_ix' = [top_ix EXCEPT ![c] = <<>>]
  /\ ai_tips' = [ai_tips EXCEPT ![c] = <<>>]
  /\ batch' = [batch EXCEPT ![c] = <<>>]
  /\ result' = [result EXCEPT ![c] = "none"]
  /\ NoAnswer("/")
  /\ UNCHANGED << store, now, ticks, seen >>

\* A request arrives at a thread that has served none yet.
Request(c) == pc[c] = "idle" /\ Start(c)

\* A request arrives when every thread before this one is through with its own.
RequestAlone(c) == (\A d \in Reqs : d < c => pc[d] = "done") /\ Request(c)

\* A request arrives at a thread that is free, whatever it served before.
Again(c) ==
  /\ pc[c] \in {"idle", "done"}
  /\ cycles < HistCycles
  /\ Start(c)

\* One pass of "for park_name, p_id in PARKS.items()": the try block on the
\* answer resp of the park's endpoint, the commit when nothing raised, and
\* "except: pass" when something did.
ParkStep(c, resp, kept) ==
  /\ pc[c] = "parks"
  /\ LET park_name == PARKS[park_i[c]]
         st == TryPark(resp, park_name,
                       [playlist |-> playlist[c], session |-> session[c],
                        raised |-> FALSE])
     IN  /\ playlist' = [playlist EXCEPT ![c] = st.playlist]
         /\ IF st.raised
              THEN /\ session' = [session EXCEPT ![c] = st.session]
                   /\ failed' = [failed EXCEPT ![c] = @ \cup {park_name}]
                   /\ store' = store
              ELSE /\ session' = [session EXCEPT ![c] = <<>>]
                   /\ failed' = failed
                   /\ store' = Commit(store, st.session, now, cyc[c])
         /\ visited' = [visited EXCEPT ![c] = Append(@, park_name)]
  /\ response' = [response EXCEPT ![c] = kept]
  /\ seen' = seen + Cost(resp)
  /\ IF park_i[c] < Len(PARKS)
       THEN /\ park_i' = [park_i EXCEPT ![c] = @ + 1]
            /\ pc' = pc
       ELSE /\ park_i' = park_i
            /\ pc' = [pc EXCEPT ![c] = "after"]
  /\ NoAnswer("/")
  /\ UNCHANGED << now, ticks, cycles, cyc, top_5, top_ix, ai_tips, batch, result >>

\* After the loop: advice and ranking on the playlist as built, the in-place
\* shuffle, the template; then the request ends and its session is removed,
\* which discards the rows still pending in it.
Finish(c, shuffled) ==
  /\ pc[c] = "after"
  /\ IsOrderingOf(shuffled, playlist[c])
  /\ ai_tips' \in { [ai_tips EXCEPT ![c] = a] : a \in AdviceSet(playlist[c]) }
  /\ top_ix' = [top_ix EXCEPT ![c] = Top5Ix(playlist[c])]
  /\ top_5' = [top_5 EXCEPT ![c] =
                 [k \in 1..Len(Top5Ix(playlist[c])) |->
                    playlist[c][Top5Ix(playlist[c])[k]]]]
  /\ batch' = [batch EXCEPT ![c] = shuffled]
  /\ result' = [result EXCEPT ![c] =
                  IF Renders(shuffled) THEN "rendered" ELSE "raised"]
  /\ session' = [session EXCEPT ![c] = <<>>]
  /\ pc' = [pc EXCEPT ![c] = "done"]
  /\ NoAnswer("/")
  /\ UNCHANGED << store, now, ticks, cycles, seen, park_i, playlist, cyc,
                  visited, failed, response >>

\* ------------------------------------------ GET /api/history/<ride_name>
get_ride_history(ride_name) ==
  /\ \E ids \in Ascending(store,
                  RideRows(store, ride_name, now - HistoryHours * 60)) :
       /\ history_ids' = ids
       /\ history' = HistoryJson(store, ids)
  /\ logs' = <<>>
  /\ route' = "/api/history"
  /\ asked' = ride_name
  /\ UNCHANGED << store, now, ticks, cycles, seen >>
  /\ UNCHANGED reqVars

\* ----------------------------------------------------------- GET /history
history_log ==
  /\ \E ids \in Descending(store, LogRows(store, now - LogHours * 60)) :
       logs' = [k \in 1..Min(LogLimit, Len(ids)) |-> store[ids[k]]]
  /\ history' = <<>>
  /\ history_ids' = <<>>
  /\ route' = "/history"
  /\ asked' = ""
  /\ UNCHANGED << store, now, ticks, cycles, seen >>
  /\ UNCHANGED reqVars

\* ------------------------------------------------------------------ clock
Tick(d) ==
  /\ ticks < cycles
  /\ ticks' = ticks + 1
  /\ now' = now + d
  /\ NoAnswer("")
  /\ UNCHANGED << store, cycles, seen >>
  /\ UNCHANGED reqVars

\* --------------------------------------------------------- specifications
\* What the queue source delivers in Spec: a marquee ride that is open, a
\* permanently closed ride that is still listed, a record with no fields at
\* all, and an array element that is no object.
MainRides ==
  { Ride("Mine Train", "true", "int", 30),
    Ride("Dinosaur", "true", "int", 30),
    Ride(NoneName, "absent", "absent", 0),
    Garbage }

MainSource == [n \in 0..MaxEvents |-> Responses(MainRides, n)]

\* Two requests to GET /, one after the other.
Next ==
  \/ \E c \in Reqs : RequestAlone(c)
  \/ \E c \in Reqs : \E resp \in MainSource[MaxEvents - seen] : ParkStep(c, resp, resp)
  \/ \E c \in Reqs : \E shuffled \in Orderings(playlist[c]) : Finish(c, shuffled)

Spec == Init /\ [][Next]_vars

\* Both threads serve GET / at once, while the read routes are called.  The
\* first and the last park have something to report or fail; the parks in
\* between answer with an empty document.
ConcDocs ==
  { FetchError,
    Json(<<>>, <<>>),
    Json(<<>>, << Ride("Mine Train", "true", "int", 30) >>),
    Json(<< << Ride("Jaws", "false", "int", 10) >> >>, << Garbage >>) }

ConcSource(i) == IF i \in { 1, Len(PARKS) } THEN ConcDocs ELSE { Json(<<>>, <<>>) }

NextConc ==
  \/ \E c \in Reqs : Request(c)
  \/ \E c \in Reqs : \E resp \in ConcSource(park_i[c]) : ParkStep(c, resp, FetchError)
  \/ \E c \in Reqs : \E shuffled \in Orderings(playlist[c]) : Finish(c, shuffled)
  \/ \E ride_name \in { "Mine Train" } : get_ride_history(ride_name)
  \/ history_log

SpecConc == Init /\ [][NextConc]_vars

\* One request, on raw records of every shape the transformer tells apart.
AllRides ==
  { Ride(name, is_open, w[1], w[2]) :
      name \in { "Mine Train", "Dinosaur", NoneName },
      is_open \in { "absent", "true", "false" },
      w \in { <<"absent", 0>>, <<"null", 0>>, <<"int", -3>>, <<"int", 0>>,
              <<"int", 1>>, <<"int", 30>> } }
  \cup { Garbage }

RawSource == [n \in 0..RawEvents |-> Responses(AllRides, n)]

NextRaw ==
  \/ RequestAlone(1)
  \/ \E resp \in RawSource[RawEvents - seen] : ParkStep(1, resp, resp)
  \/ \E shuffled \in Orderings(playlist[1]) : Finish(1, shuffled)

SpecRaw == Init /\ [][NextRaw]_vars

\* Requests one after the other on one thread, hours apart, and the per-ride
\* query in between.  Only the first park has rides to report.
HistRides ==
  { Ride("Mine Train", "true", "int", 30), Ride("Jaws", "true", "int", 10) }

HistSource == { Json(<<>>, <<>>) } \cup { Json(<<>>, << r >>) : r \in HistRides }

Elapse == { 10, 50, HistoryHours * 60 }

NextHistory ==
  \/ Again(1)
  \/ \E resp \in (IF park_i[1] = 1 THEN HistSource ELSE { Json(<<>>, <<>>) }) :
       ParkStep(1, resp, FetchError)
  \/ \E shuffled \in { playlist[1] } : Finish(1, shuffled)
  \/ \E d \in Elapse : pc[1] \in { "idle", "done" } /\ Tick(d)
  \/ \E ride_name \in { "Mine Train", "Jaws" } : get_ride_history(ride_name)

SpecHistory == Init /\ [][NextHistory]_vars

\* Ranking and advice on batches of every make-up: the request stands right
\* behind the loop over the parks, every park has answered and committed, and
\* the playlist is drawn from the samples below.
Sample(name, park, wait, status) ==
  [name |-> name, park |-> park, wait |-> wait, status |-> status]

RankSamples ==
  { Sample("A", "EPCOT", 30, "OPEN"), Sample("B", "EPCOT", 90, "OPEN"),
    Sample("C", "EPCOT", 0, "DELAYED"), Sample("D", "EPCOT", 90, "OPEN") }

AdviceSamples ==
  { Sample("Stardust Racers", EpicPark, 20, "OPEN"),
    Sample("Mine Train", EpicPark, 45, "OPEN"),
    Sample("Curse of the Werewolf", EpicPark, 46, "OPEN"),
    Sample("Hiccup's Wing Gliders", EpicPark, 0, "DELAYED"),
    Sample("Slinky Dog", "Hollywood Studios", 50, "OPEN"),
    Sample("Rise of the Resistance", "Hollywood Studios", 51, "OPEN"),
    Sample("Mine Train", "Magic Kingdom", 0, "DELAYED"),
    Sample("Space Mountain", "Magic Kingdom", 5, "OPEN") }

\* The place of a park in the loop over PARKS.
ParkIndex(park_name) == CHOOSE i \in 1..Len(PARKS) : PARKS[i] = park_name

\* The loop appends park by park, so a playlist has its samples in the order
\* of the parks.
ByPark(p) ==
  \A i, j \in 1..Len(p) : i < j => ParkIndex(p[i].park) <= ParkIndex(p[j].park)

Batches ==
  { p \in SeqsUpTo(RankSamples, MaxBatch) \cup SeqsUpTo(AdviceSamples, MaxAdvice) :
      ByPark(p) }

InitPure ==
  /\ now = 0
  /\ ticks = 0
  /\ cycles = 1
  /\ seen = 0
  /\ pc = [c \in Reqs |-> IF c = 1 THEN "after" ELSE "idle"]
  /\ park_i = [c \in Reqs |-> IF c = 1 THEN Len(PARKS) ELSE 1]
  /\ playlist \in { [c \in Reqs |-> IF c = 1 THEN p ELSE <<>>] : p \in Batches }
  /\ store = Commit(<<>>, [i \in 1..Len(playlist[1]) |-> WaitHistory(playlist[1][i])],
                    0, 1)
  /\ session = [c \in Reqs |-> <<>>]
  /\ cyc = [c \in Reqs |-> IF c = 1 THEN 1 ELSE 0]
  /\ visited = [c \in Reqs |-> IF c = 1 THEN PARKS ELSE <<>>]
  /\ failed = [c \in Reqs |-> {}]
  /\ response = [c \in Reqs |-> IF c = 1 THEN Json(<<>>, <<>>) ELSE FetchError]
  /\ top_5 = [c \in Reqs |-> <<>>]
  /\ top_ix = [c \in Reqs |-> <<>>]
  /\ ai_tips = [c \in Reqs |-> <<>>]
  /\ batch = [c \in Reqs |-> <<>>]
  /\ result = [c \in Reqs |-> "none"]
  /\ history = <<>>
  /\ history_ids = <<>>
  /\ logs = <<>>
  /\ route = "/"
  /\ asked = ""

Reverse(s) == [i \in 1..Len(s) |-> s[Len(s) + 1 - i]]

NextPure == \E shuffled \in { playlist[1], Reverse(playlist[1]) } : Finish(1, shuffled)

SpecPure == InitPure /\ [][NextPure]_vars

\* ------------------------------------------------------------ properties
\* The rows of the table that request c's cycle committed.
RowsOf(c) == { k \in 1..Len(store) : store[k].cyc = cyc[c] }

\* Row and sample agree on ride name, park, wait and status.
Matches(row, u) ==
  /\ row.ride_name = u.name /\ row.park_name = u.park
  /\ row.wait_time = u.wait /\ row.status = u.status

\* The park the loop of request c went through last.
LastPark(c) == visited[c][Len(visited[c])]

\* The raw records of a response whose name the exclusion list does not hold.
Kept(resp) == SelectSeq(RawRides(resp), LAMBDA r : r.name \notin BLACKLIST)

\* C1: when a cycle has returned, a park whose fetch or processing failed in
\* it has no ride in the returned batch and no row of that cycle in the table.
C1_FailedParkContributesNothing ==
  \A c \in Reqs : pc[c] = "done" =>
    \A p \in failed[c] :
      /\ \A i \in 1..Len(batch[c]) : batch[c][i].park /= p
      /\ \A k \in RowsOf(c) : store[k].park_name /= p

\* C2: when a cycle has returned its batch, every sample of the batch has a
\* committed row with the same ride name, park, wait and status.
C2_BatchIsCommitted ==
  \A c \in Reqs : (pc[c] = "done" /\ result[c] = "rendered") =>
    \A i \in 1..Len(batch[c]) :
      \E k \in 1..Len(store) : Matches(store[k], batch[c][i])

\* C3, third part: a park that did not fail has put the non-excluded rides of
\* its response on the playlist, in order and under its own name.
C3_Contributes ==
  \A c \in Reqs : (visited[c] /= <<>> /\ LastPark(c) \notin failed[c]) =>
    LET kept == Kept(response[c])
        n    == Len(playlist[c])
    IN  /\ n >= Len(kept)
        /\ \A i \in 1..Len(kept) :
             /\ playlist[c][n - Len(kept) + i].name = kept[i].name
             /\ playlist[c][n - Len(kept) + i].park = LastPark(c)

\* C3, second part: the loop goes through the configured parks in order, each
\* once.
C3_EveryParkOnce ==
  \A c \in Reqs :
    /\ pc[c] \in { "after", "done" } => visited[c] = PARKS
    /\ pc[c] = "parks" => visited[c] = SubSeq(PARKS, 1, park_i[c] - 1)

\* C3: a cycle runs to completion without raising, whatever parks fail; every
\* park is visited once, and every park that did not fail contributes all of
\* its non-excluded rides.
C3_CycleNeverRaises ==
  /\ \A c \in Reqs : pc[c] = "done" => result[c] = "rendered"
  /\ C3_EveryParkOnce
  /\ C3_Contributes

\* C4: no sample with an excluded ride name is in a playlist, a returned
\* batch, a session or the table, wherever in the response the ride was.
C4_NoExcludedSample ==
  /\ \A k \in 1..Len(store) : store[k].ride_name \notin BLACKLIST
  /\ \A c \in Reqs :
       /\ \A i \in 1..Len(playlist[c]) : playlist[c][i].name \notin BLACKLIST
       /\ \A i \in 1..Len(batch[c]) : batch[c][i].name \notin BLACKLIST
       /\ \A i \in 1..Len(session[c]) : session[c][i].ride_name \notin BLACKLIST

\* A park answered with an excluded ride in a land and one in the top-level
\* rides array, and its try block went through to the commit.
C4_Witness ==
  \E c \in Reqs :
    /\ visited[c] /= <<>> /\ LastPark(c) \notin failed[c]
    /\ response[c].t = "json"
    /\ \E l \in 1..Len(response[c].lands) :
         \E i \in 1..Len(response[c].lands[l]) :
           response[c].lands[l][i].name \in BLACKLIST
    /\ \E i \in 1..Len(response[c].rides) : response[c].rides[i].name \in BLACKLIST

\* The policy of C5 for one raw record.
PolicyStatus(r) == IF r.is_open = "true" THEN "OPEN" ELSE "DELAYED"
PolicyWait(r) ==
  CASE r.is_open /= "true" -> 0
    [] r.is_open = "true" /\ r.wait_kind = "absent" -> 5
    [] r.is_open = "true" /\ r.wait_kind /= "absent" /\ r.wait_val <= 0 -> 5
    [] OTHER -> r.wait_val

\* C5: the sample of every non-excluded raw record has the status and wait of
\* the policy; so every sample anywhere has wait >= 0, and wait 0 exactly
\* when it is DELAYED.
C5_WaitPolicy ==
  /\ \A c \in Reqs : (visited[c] /= <<>> /\ LastPark(c) \notin failed[c]) =>
       LET kept == Kept(response[c])
           n    == Len(playlist[c])
       IN  /\ n >= Len(kept)
           /\ \A i \in 1..Len(kept) :
                /\ playlist[c][n - Len(kept) + i].status = PolicyStatus(kept[i])
                /\ playlist[c][n - Len(kept) + i].wait = PolicyWait(kept[i])
  /\ \A c \in Reqs :
       /\ \A i \in 1..Len(playlist[c]) :
            /\ playlist[c][i].wait >= 0
            /\ playlist[c][i].wait = 0 <=> playlist[c][i].status = "DELAYED"
       /\ \A i \in 1..Len(batch[c]) :
            /\ batch[c][i].wait >= 0
            /\ batch[c][i].wait = 0 <=> batch[c][i].status = "DELAYED"
       /\ \A i \in 1..Len(session[c]) :
            /\ session[c][i].wait_time >= 0
            /\ session[c][i].wait_time = 0 <=> session[c][i].status = "DELAYED"
  /\ \A k \in 1..Len(store) :
       /\ store[k].wait_time >= 0
       /\ store[k].wait_time = 0 <=> store[k].status = "DELAYED"

\* An open ride reported with wait 0 went through and is stored with wait 5.
C5_Witness ==
  \E c \in Reqs :
    /\ visited[c] /= <<>> /\ LastPark(c) \notin failed[c]
    /\ Len(Kept(response[c])) = 1
    /\ Kept(response[c])[1].is_open = "true"
    /\ Kept(response[c])[1].wait_kind = "int"
    /\ Kept(response[c])[1].wait_val = 0
    /\ \E k \in 1..Len(store) : store[k].status = "OPEN" /\ store[k].wait_time = 5

\* The positions of the OPEN samples of a batch.
OpenAt(p) == { i \in 1..Len(p) : p[i].status = "OPEN" }

\* Position i of batch p ranks ahead of position j: a larger wait, or the same
\* wait and earlier in the batch.
Ahead(p, i, j) == p[i].wait > p[j].wait \/ (p[i].wait = p[j].wait /\ i < j)

\* C6: the top-5 ranking holds only OPEN samples, min(5, number of OPEN
\* samples) of them, by wait descending with ties in batch order; no OPEN
\* sample left out ranks ahead of one that is in; and the batch
\* [A open 30, B open 90, C delayed, D open 90] ranks as [B, D, A].
C6_Top5 ==
  \A c \in Reqs : pc[c] = "done" =>
    LET p == playlist[c]  ix == top_ix[c]  top == top_5[c]
    IN  /\ Len(top) = Min(5, Cardinality(OpenAt(p)))
        /\ Len(ix) = Len(top)
        /\ \A k \in 1..Len(top) : ix[k] \in OpenAt(p) /\ top[k] = p[ix[k]]
        /\ \A k, l \in 1..Len(top) : k < l => Ahead(p, ix[k], ix[l])
        /\ \A j \in OpenAt(p) \ Range(ix) : \A k \in 1..Len(ix) : Ahead(p, ix[k], j)
        /\ \A k \in 1..Len(top) : \A j \in OpenAt(p) \ Range(ix) :
             p[j].wait <= top[k].wait
        /\ [i \in 1..Len(p) |-> p[i].name] = << "A", "B", "C", "D" >> =>
             [k \in 1..Len(top) |-> top[k].name] = << "B", "D", "A" >>

\* A ranked batch with more than five OPEN samples, two of the ranked ones
\* tied, and an OPEN sample left out that ties with the last one ranked.
C6_Witness ==
  /\ pc[1] = "done"
  /\ Cardinality(OpenAt(playlist[1])) > 5
  /\ Len(top_5[1]) = 5
  /\ top_5[1][1].wait = top_5[1][2].wait
  /\ \E j \in OpenAt(playlist[1]) \ Range(top_ix[1]) :
       playlist[1][j].wait = top_5[1][5].wait

\* The positions of a batch that qualify for the epic tip and the value alert.
GemAt(p) ==
  { i \in OpenAt(p) : p[i].park = "Epic Universe" /\ p[i].wait <= 45 }
ValueAt(p) ==
  { i \in OpenAt(p) :
      p[i].name \in { "Mine Train", "Slinky Dog", "Rise of the Resistance" }
      /\ p[i].wait <= 50 }

\* The k-th smallest element of a set of positions.
Kth(S, k) == CHOOSE i \in S : Cardinality({ j \in S : j < i }) = k - 1

\* C7: the advice is the quiet-parks message alone when no sample is OPEN;
\* otherwise the first two of: one epic tip naming an OPEN Epic Universe
\* sample with wait <= 45 (if there is any), then one value alert, in batch
\* order, for each OPEN marquee sample with wait <= 50; and the generic
\* message alone when there is neither.
C7_Advice ==
  \A c \in Reqs : pc[c] = "done" =>
    LET p == playlist[c]  tips == ai_tips[c]
        e == IF GemAt(p) = {} THEN 0 ELSE 1
    IN  /\ Len(tips) <= 2
        /\ OpenAt(p) = {} => tips = << [kind |-> "QUIET", name |-> "", wait |-> 0] >>
        /\ (OpenAt(p) /= {} /\ GemAt(p) = {} /\ ValueAt(p) = {}) =>
             tips = << [kind |-> "WELCOME", name |-> "", wait |-> 0] >>
        /\ (OpenAt(p) /= {} /\ (GemAt(p) /= {} \/ ValueAt(p) /= {})) =>
             /\ Len(tips) = Min(2, e + Cardinality(ValueAt(p)))
             /\ e = 1 =>
                  \E i \in GemAt(p) :
                    tips[1] = [kind |-> "EPIC TIP", name |-> p[i].name,
                               wait |-> p[i].wait]
             /\ \A k \in (e + 1)..Len(tips) :
                  tips[k] = [kind |-> "VALUE ALERT",
                             name |-> p[Kth(ValueAt(p), k - e)].name,
                             wait |-> p[Kth(ValueAt(p), k - e)].wait]

\* Advice on a batch with two samples to pick the epic tip from and two value
\* alerts due, of which the cap leaves one.
C7_Witness ==
  /\ pc[1] = "done"
  /\ Cardinality(GemAt(playlist[1])) = 2
  /\ Cardinality(ValueAt(playlist[1])) = 2
  /\ Len(ai_tips[1]) = 2
  /\ ai_tips[1][1].kind = "EPIC TIP"
  /\ ai_tips[1][2].kind = "VALUE ALERT"

\* The rows of ride_name observed within the 24 hours before now.
InWindow(ride_name) ==
  { k \in 1..Len(store) :
      /\ store[k].ride_name = ride_name
      /\ now - store[k].timestamp < 24 * 60
      /\ store[k].timestamp <= now }

\* C8: the per-ride history query answers with exactly the rows of that ride
\* observed within the last 24 hours, each once, as (time of day, wait), in
\* ascending time order.
C8_HistoryQuery ==
  route = "/api/history" =>
    /\ Range(history_ids) = InWindow(asked)
    /\ Len(history_ids) = Cardinality(InWindow(asked))
    /\ \A k, l \in 1..Len(history_ids) :
         k < l => store[history_ids[k]].timestamp <= store[history_ids[l]].timestamp
    /\ Len(history) = Len(history_ids)
    /\ \A k \in 1..Len(history) :
         /\ history[k].wait = store[history_ids[k]].wait_time
         /\ history[k].time.hour \in 0..23 /\ history[k].time.minute \in 0..59
         /\ (store[history_ids[k]].timestamp
               - (history[k].time.hour * 60 + history[k].time.minute)) % (24 * 60) = 0

\* Samples of one ride from 25 hours, 1 hour and 10 minutes ago, and a query
\* for the ride that is answered with the last two.
C8_Witness ==
  /\ route = "/api/history" /\ asked = "Mine Train"
  /\ Len(store) = 3
  /\ \A k \in 1..3 : store[k].ride_name = "Mine Train"
  /\ store[1].timestamp = now - 25 * 60
  /\ store[2].timestamp = now - 60
  /\ store[3].timestamp = now - 10
  /\ history_ids = << 2, 3 >>

\* C9: in every cycle the table grows by exactly the size of the batch the
\* cycle returns, also when the cycle before it had the same input.
C9_GrowsByBatch ==
  \A c \in Reqs : pc[c] = "done" => Cardinality(RowsOf(c)) = Len(batch[c])

\* C10, on states: every row carries the ride name, park, wait and status of
\* one sample of the cycle that committed it.
C10_RowsAreSamples ==
  \A k \in 1..Len(store) : \A c \in Reqs :
    cyc[c] = store[k].cyc =>
      \E i \in 1..Len(playlist[c]) : Matches(store[k], playlist[c][i])

\* C10, on steps: the rows of the table stay as they are and where they are,
\* and a step of a read route leaves the table as it is.
C10_StepKeepsRows ==
  /\ Len(store') >= Len(store)
  /\ SubSeq(store', 1, Len(store)) = store
  /\ route' \in { "/history", "/api/history" } => store' = store

\* C10: the table is append-only under every interleaving of two cycles and
\* the read routes, and no row mixes fields of two samples.
C10_AppendOnly == [][C10_StepKeepsRows]_vars /\ []C10_RowsAreSamples

\* Rows of the two cycles lie interleaved in the table, and a read route has
\* just been served while both requests are still in their loops.
C10_Witness ==
  /\ Len(store) >= 3
  /\ store[1].cyc /= store[2].cyc
  /\ store[3].cyc = store[1].cyc
  /\ route \in { "/history", "/api/history" }
  /\ Len(logs) + Len(history) >= 3

====
